---- MODULE Spec2Model ----
(***************************************************************************)
(* Binary Takuzu: the bit-packed grid, the constraint checker (getRow,     *)
(* getCol, isBalanced, hasTriplets, isValid), the puzzle loader and the    *)
(* two backtracking solvers of the repository:                             *)
(*   - src/unnamed/part_002: bool solve / bool load(const char*, ...)      *)
(*   - src/takuzu.c:         unsigned long long solve / void load(...)     *)
(*                                                                         *)
(* An unsigned long long is modelled as the set of the positions of its    *)
(* set bits, a subset of 0..WordBits-1, so that shifts lose the bits that  *)
(* leave the word.  An unsigned char (a row or a column) is a number in    *)
(* 0..255.                                                                 *)
(***************************************************************************)
EXTENDS Integers, Sequences, FiniteSets

\* #define N 6: the side of the grid.
N == 6

\* Width of unsigned long long.
WordBits == 64

\* Width of unsigned char.
CharBits == 8

NN == N * N

AllBits == 0 .. (WordBits - 1)

\* The bits of the word that are cells of the grid.
GridBits == 0 .. (NN - 1)

(***************************************************************************)
(* Word arithmetic                                                         *)
(***************************************************************************)

\* w << n on a 64-bit word: the bits shifted past the top are lost.
Shl(w, n) == {b + n : b \in {x \in w : x + n < WordBits}}

\* w >> n
Shr(w, n) == {b - n : b \in {x \in w : x >= n}}

\* 1ULL << i
Bit(i) == Shl({0}, i)

\* a ^ b
Xor(a, b) == (a \ b) \cup (b \ a)

RECURSIVE BitsToNat(_, _)
BitsToNat(w, k) ==
    IF k = 0 THEN 0
    ELSE BitsToNat(w, k - 1) + (IF (k - 1) \in w THEN 2 ^ (k - 1) ELSE 0)

\* Conversion of a word to unsigned char: its low 8 bits, as a number.
ToUChar(w) == BitsToNat(w, CharBits)

(***************************************************************************)
(* Bitboard extraction                                                     *)
(***************************************************************************)

\* (grid >> index * N) & (1 << N) - 1
getRow(grid, index) == ToUChar(Shr(grid, index * N) \cap (0 .. (N - 1)))

RECURSIVE getColLoop(_, _, _)
getColLoop(grid, i, col) ==
    IF i >= N THEN col
    ELSE getColLoop(Shr(grid, N), i + 1,
                    ((col * 2) % (2 ^ CharBits)) + (IF 0 \in grid THEN 1 ELSE 0))

\* grid >>= index; N times: col = col << 1 | grid & 1; grid >>= N
getCol(grid, index) == getColLoop(Shr(grid, index), 0, 0)

(***************************************************************************)
(* Constraint checker                                                      *)
(***************************************************************************)

RECURSIVE isBalancedLoop(_, _, _, _, _)
isBalancedLoop(rowOrCol, actions, i, count_0, count_1) ==
    IF i >= N THEN (count_0 <= N \div 2) /\ (count_1 <= N \div 2)
    ELSE LET filled == (actions % 2) = 0
             one    == (rowOrCol % 2) = 1
         IN  isBalancedLoop(rowOrCol \div 2, actions \div 2, i + 1,
                            count_0 + (IF filled /\ ~one THEN 1 ELSE 0),
                            count_1 + (IF filled /\ one THEN 1 ELSE 0))

\* The variant that forgets the count of ones: return count_0 <= N/2.
isBalanced_zeros(rowOrCol, actions) ==
    Cardinality({k \in 0 .. (N - 1) :
                    /\ ((actions \div (2 ^ k)) % 2) = 0
                    /\ ((rowOrCol \div (2 ^ k)) % 2) = 0}) <= N \div 2

isBalanced(rowOrCol, actions) == isBalancedLoop(rowOrCol, actions, 0, 0, 0)

RECURSIVE hasTripletsLoop(_, _, _)
hasTripletsLoop(rowOrCol, actions, i) ==
    IF i >= N - 2 THEN FALSE
    ELSE IF (actions % 8) = 0 /\ ((rowOrCol + 1) % 8) <= 1 THEN TRUE
    ELSE hasTripletsLoop(rowOrCol \div 2, actions \div 2, i + 1)

\* The variant whose loop stops one window early: for (i = 0; i < N-3; i++).
hasTriplets_short(rowOrCol, actions) ==
    \E i \in 0 .. (N - 4) :
        /\ ((actions \div (2 ^ i)) % 8) = 0
        /\ (((rowOrCol \div (2 ^ i)) + 1) % 8) <= 1

\* The variant that never finds three equal neighbours.
hasTriplets_none(rowOrCol, actions) == FALSE

hasTriplets(rowOrCol, actions) == hasTripletsLoop(rowOrCol, actions, 0)

\* if (!row_actions): only a row or column without empty cells is compared.
\* The variant that compares every row and column, filled or not.
isFull_always(rc_actions) == TRUE

isFull(rc_actions) == rc_actions = 0

\* for (j < index) if (rc == seen[j]) return false
isDuplicate(rc, seen) == \E j \in 1 .. Len(seen) : seen[j] = rc

RECURSIVE isValidLoop(_, _, _, _, _)
isValidLoop(grid, actions, i, rows, cols) ==
    IF i >= N THEN TRUE
    ELSE LET row         == getRow(grid, i)
             col         == getCol(grid, i)
             row_actions == getRow(actions, i)
             col_actions == getCol(actions, i)
         IN  IF \/ ~isBalanced(row, row_actions)
                \/ hasTriplets(row, row_actions)
                \/ ~isBalanced(col, col_actions)
                \/ hasTriplets(col, col_actions)
             THEN FALSE
             ELSE IF isFull(row_actions) /\ isDuplicate(row, rows) THEN FALSE
             ELSE IF isFull(col_actions) /\ isDuplicate(col, cols) THEN FALSE
             ELSE isValidLoop(grid, actions, i + 1,
                      IF isFull(row_actions) THEN Append(rows, row) ELSE rows,
                      IF isFull(col_actions) THEN Append(cols, col) ELSE cols)

isValid(grid, actions) == isValidLoop(grid, actions, 0, <<>>, <<>>)

(***************************************************************************)
(* load of src/unnamed/part_002: a puzzle string into grid and actions     *)
(***************************************************************************)

\* The characters load accepts.
Alphabet == {"0", "1", " "}

\* bit_mask != 16ULL && != 65536ULL && != 68719476736ULL && != 18446744073709551615ULL
\* (2^4, 2^16, 2^36 and the word with all 64 bits set)
isBadLength(bit_mask) ==
    /\ bit_mask # Bit(4)
    /\ bit_mask # Bit(16)
    /\ bit_mask # Bit(36)
    /\ bit_mask # AllBits

\* The character test that also lets the digit 2 through.
isBadChar_lax(c) == c # "1" /\ c # "0" /\ c # " " /\ c # "2"

\* *puzzle != '1' && *puzzle != '0' && *puzzle != ' '
isBadChar(c) == c # "1" /\ c # "0" /\ c # " "

\* The scan of the string: st holds the position k (from 1), grid, actions
\* and bit_mask after the characters before k.
RECURSIVE loadLoop(_, _)
loadLoop(puzzle, st) ==
    IF st.k > Len(puzzle)
    THEN IF isBadLength(st.bit_mask)
         THEN [ret |-> FALSE, msg |-> "Invalid puzzle length", ch |-> "",
               grid |-> st.grid, actions |-> st.actions, bit_mask |-> st.bit_mask]
         ELSE [ret |-> TRUE, msg |-> "", ch |-> "",
               grid |-> st.grid, actions |-> st.actions, bit_mask |-> st.bit_mask]
    ELSE LET c == puzzle[st.k]
         IN  IF isBadChar(c)
             THEN [ret |-> FALSE, msg |-> "Invalid character found", ch |-> c,
                   grid |-> st.grid, actions |-> st.actions, bit_mask |-> st.bit_mask]
             ELSE IF c = " "
             THEN loadLoop(puzzle, [k        |-> st.k + 1,
                                    grid     |-> st.grid,
                                    actions  |-> st.actions,
                                    bit_mask |-> Shl(st.bit_mask, 1)])
             ELSE loadLoop(puzzle, [k        |-> st.k + 1,
                                    grid     |-> IF c = "1" THEN st.grid \cup st.bit_mask
                                                 ELSE st.grid,
                                    actions  |-> Xor(st.actions, st.bit_mask),
                                    bit_mask |-> Shl(st.bit_mask, 1)])

\* The variant that reports the last character outside the alphabet in
\* place of the first.
load_last(puzzle, grid, actions) ==
    LET r == loadLoop(puzzle, [k |-> 1, grid |-> grid, actions |-> actions,
                               bit_mask |-> Bit(0)])
        last == CHOOSE k \in 1 .. Len(puzzle) :
                    /\ isBadChar(puzzle[k])
                    /\ \A j \in (k + 1) .. Len(puzzle) : ~isBadChar(puzzle[j])
    IN  IF r.msg = "Invalid character found" THEN [r EXCEPT !.ch = puzzle[last]]
        ELSE r

\* bool load(const char* puzzle, unsigned long long* grid, unsigned long long* actions)
load(puzzle, grid, actions) ==
    loadLoop(puzzle, [k |-> 1, grid |-> grid, actions |-> actions, bit_mask |-> Bit(0)])

(***************************************************************************)
(* Inputs of load: strings of every length up to MaxLen, filled with a     *)
(* repeating pattern, with at most two characters outside the alphabet: one *)
(* of them, or both at two places of the string.                           *)
(***************************************************************************)

\* Longest puzzle string tried.
MaxLen == 66

Patterns == {<<" ">>, <<"0">>, <<"1">>, <<"0", "1", " ">>, <<"1", " ", "0", "0">>}

BadChars == {"2", "x"}

PatternString(pat, len) == [k \in 1 .. len |-> pat[((k - 1) % Len(pat)) + 1]]

\* The places of a string of length len that get such a character.
BadPlaces(len) == {q \in {1, 2, len \div 2, len - 1, len} : q >= 1 /\ q <= len}

LoadInputs ==
    {PatternString(pat, len) : pat \in Patterns, len \in 0 .. MaxLen}
    \cup
    UNION {{[PatternString(pat, len) EXCEPT ![p] = b] :
               p \in BadPlaces(len), b \in BadChars} :
           pat \in Patterns, len \in 1 .. MaxLen}
    \cup
    UNION {{[PatternString(pat, len) EXCEPT ![pq[1]] = bc[1], ![pq[2]] = bc[2]] :
               pq \in {x \in BadPlaces(len) \X BadPlaces(len) : x[1] # x[2]},
               bc \in {y \in BadChars \X BadChars : y[1] # y[2]}} :
           pat \in Patterns, len \in 2 .. MaxLen}

(***************************************************************************)
(* State of the program                                                    *)
(***************************************************************************)

VARIABLES
    pc,       \* position of main: "load", "loaded", "solve", "done"
    puzzle,   \* the puzzle handed to load
    grid,     \* main's grid word
    actions,  \* main's actions word
    loaded,   \* what load returned and reported
    stack,    \* the active calls of solve, innermost last
    ret,      \* the value returned by the call that ended last, if any
    out,      \* the (grid, actions) reported with "Solved!", in order
    nValid    \* number of isValid calls made by solve so far

vars == <<pc, puzzle, grid, actions, loaded, stack, ret, out, nValid>>

NoLoad == [ret |-> TRUE, msg |-> "", ch |-> ""]

\* ret while no call has returned a value; <<v>> once a call has returned v.
NoRet == <<>>

(***************************************************************************)
(* SpecLoad: main sets grid = 0 and actions = -1 and calls load once.      *)
(***************************************************************************)

InitLoad ==
    /\ pc = "load"
    /\ puzzle \in LoadInputs
    /\ grid = {}
    /\ actions = AllBits
    /\ loaded = NoLoad
    /\ stack = <<>>
    /\ ret = NoRet
    /\ out = <<>>
    /\ nValid = 0

Load ==
    /\ pc = "load"
    /\ LET r == load(puzzle, grid, actions)
       IN  /\ loaded' = [ret |-> r.ret, msg |-> r.msg, ch |-> r.ch]
           /\ grid' = r.grid
           /\ actions' = r.actions
    /\ pc' = "loaded"
    /\ UNCHANGED <<puzzle, stack, ret, out, nValid>>

NextLoad == Load

SpecLoad == InitLoad /\ [][NextLoad]_vars

(***************************************************************************)
(* Claims about load (SpecLoad)                                            *)
(***************************************************************************)

OverAlphabet(str) == \A k \in 1 .. Len(str) : str[k] \in Alphabet

HasBadChar(str) == \E k \in 1 .. Len(str) : str[k] \notin Alphabet

FirstBadChar(str) ==
    str[CHOOSE k \in 1 .. Len(str) :
            /\ str[k] \notin Alphabet
            /\ \A j \in 1 .. (k - 1) : str[j] \in Alphabet]

RejectedForLength == loaded.ret = FALSE /\ loaded.msg = "Invalid puzzle length"

\* C7 as stated: load rejects, with the invalid-length report, every string
\* over the alphabet whose length is not 16, 36 or 64.
C7_RejectsAllBut_16_36_64 ==
    (pc = "loaded" /\ OverAlphabet(puzzle) /\ Len(puzzle) \notin {16, 36, 64})
        => RejectedForLength

\* A string of length 4 over the alphabet is accepted.
C7_Accepts4 ==
    /\ pc = "loaded"
    /\ OverAlphabet(puzzle)
    /\ Len(puzzle) = 4
    /\ loaded.ret = TRUE

\* C8 as stated: load accepts every 64-character string over the alphabet.
C8_Accepts64 ==
    (pc = "loaded" /\ OverAlphabet(puzzle) /\ Len(puzzle) = 64)
        => loaded.ret = TRUE

\* C9: a string with a character outside the alphabet fails with the
\* invalid-character report naming the first such character, whatever the
\* length of the string.
C9_BadCharFirst ==
    (pc = "loaded" /\ HasBadChar(puzzle))
        => /\ loaded.ret = FALSE
           /\ loaded.msg = "Invalid character found"
           /\ loaded.ch = FirstBadChar(puzzle)

\* A 15-character string with two different characters outside the
\* alphabet, the 2 before the x: the 2 is reported.
C9_Witness ==
    /\ pc = "loaded"
    /\ Len(puzzle) = 15
    /\ puzzle[1] = "2"
    /\ puzzle[Len(puzzle)] = "x"
    /\ loaded.ret = FALSE
    /\ loaded.msg = "Invalid character found"
    /\ loaded.ch = "2"

\* The same with the x before the 2: the x is reported.
C9_WitnessOther ==
    /\ pc = "loaded"
    /\ Len(puzzle) >= 3
    /\ puzzle[2] = "x"
    /\ puzzle[Len(puzzle)] = "2"
    /\ \A k \in 1 .. Len(puzzle) : k \notin {2, Len(puzzle)} => puzzle[k] \in Alphabet
    /\ loaded.msg = "Invalid character found"
    /\ loaded.ch = "x"

(***************************************************************************)
(* Puzzles handed to the solvers: a full grid, with at most one cell of    *)
(* its first row inverted, and the cells of a block of rows and columns    *)
(* left empty.                                                             *)
(***************************************************************************)

\* Two solved 6x6 grids (the cells holding 1), and the first with the
\* cells 0 and 4 of its first row exchanged (columns 0 and 4 unbalanced).
Solved1 == {0, 1, 3, 7, 10, 11, 12, 14, 15, 20, 21, 23, 24, 25, 28, 32, 34, 35}

Solved2 == {0, 3, 4, 7, 8, 11, 13, 16, 17, 18, 20, 21, 26, 27, 29, 30, 31, 34}

Swapped == (Solved1 \ {0}) \cup {4}

Bases == {Solved1, Solved2, Swapped}

\* Most rows of a block of empty cells.
MaxBlankRows == 2

Flips == {{}} \cup {{f} : f \in 0 .. (N - 1)}

BlankRowSets == {R \in SUBSET (0 .. (N - 1)) : Cardinality(R) <= MaxBlankRows}

BlankColSets == {C \in SUBSET (0 .. (N - 1)) : Cardinality(C) <= 2}

Block(R, C) == {r * N + c : r \in R, c \in C}

Blanks == {Block(R, C) : R \in BlankRowSets, C \in BlankColSets}

\* The puzzle string of a grid: character k is cell k - 1.
PuzzleString(ones, blanks) ==
    [k \in 1 .. NN |-> IF (k - 1) \in blanks THEN " "
                       ELSE IF (k - 1) \in ones THEN "1" ELSE "0"]

SolveInputs ==
    {PuzzleString(Xor(b, f), e) : b \in Bases, f \in Flips, e \in Blanks}

(***************************************************************************)
(* solve of src/unnamed/part_002, one call frame per active call           *)
(***************************************************************************)

RECURSIVE scanEmpty(_, _)
scanEmpty(acts, i) ==
    IF i >= NN THEN NN
    ELSE IF 0 \in Shr(acts, i) THEN i
    ELSE scanEmpty(acts, i + 1)

\* for (i = 0; i < N*N; i++) if ((actions >> i) & 1ULL): the first empty
\* cell, N*N when the loop ends without finding one.
firstEmpty(acts) == scanEmpty(acts, 0)

\* The candidate tried first that leaves the cell at 0.
new_grid_zero(g, i) == g

\* The variant that writes the 1 into cell 0 whatever cell is being tried.
new_grid_first(g, i) == g \cup Bit(0)

\* new_grid = grid | (1ULL << i)
new_grid(g, i) == g \cup Bit(i)

\* The variant that leaves the cell marked empty in the state passed down.
new_actions_keep(acts, i) == acts

\* new_actions = actions ^ (1ULL << i)
new_actions(acts, i) == Xor(acts, Bit(i))

Frame(g, acts, at) == [grid |-> g, actions |-> acts, pc |-> at]

Top == stack[Len(stack)]

SetTopPc(at) == [stack EXCEPT ![Len(stack)].pc = at]

\* return v: the frame is dropped; main goes on when it was the outermost.
Return(v) ==
    /\ stack' = SubSeq(stack, 1, Len(stack) - 1)
    /\ ret' = <<v>>
    /\ pc' = IF Len(stack) = 1 THEN "done" ELSE pc

\* if (!new_actions) { printf("Solved!\n"); printGrid(g, new_actions); }
Report(g, acts) ==
    IF acts = {} THEN Append(out, [grid |-> g, actions |-> acts]) ELSE out

\* The widths the actions word starts with: all 64 bits (actions = -1), or
\* a word exactly as wide as the grid.
StartActions == {AllBits, GridBits}

Init ==
    /\ pc = "load"
    /\ puzzle \in SolveInputs
    /\ grid = {}
    /\ actions \in StartActions
    /\ loaded = NoLoad
    /\ stack = <<>>
    /\ ret = NoRet
    /\ out = <<>>
    /\ nValid = 0

\* main: solve(grid, actions)
solve_Call ==
    /\ pc = "loaded"
    /\ loaded.ret
    /\ pc' = "solve"
    /\ stack' = <<Frame(grid, actions, "enter")>>
    /\ UNCHANGED <<puzzle, grid, actions, loaded, ret, out, nValid>>

\* No empty cell remains: "Solved!", printGrid, return true.
solve_Base ==
    /\ pc = "solve"
    /\ Top.pc = "enter"
    /\ firstEmpty(Top.actions) = NN
    /\ out' = Append(out, [grid |-> Top.grid, actions |-> Top.actions])
    /\ Return(TRUE)
    /\ UNCHANGED <<puzzle, grid, actions, loaded, nValid>>

\* isValid(new_grid, new_actions) && solve(new_grid, new_actions)
solve_TryOne ==
    /\ pc = "solve"
    /\ Top.pc = "enter"
    /\ firstEmpty(Top.actions) < NN
    /\ LET i  == firstEmpty(Top.actions)
           g1 == new_grid(Top.grid, i)
           a1 == new_actions(Top.actions, i)
       IN  stack' = IF isValid(g1, a1)
                    THEN Append(SetTopPc("one"), Frame(g1, a1, "enter"))
                    ELSE SetTopPc("tryzero")
    /\ nValid' = nValid + 1
    /\ UNCHANGED <<pc, puzzle, grid, actions, loaded, ret, out>>

\* The call for the candidate 1 has returned.
solve_AfterOne ==
    /\ pc = "solve"
    /\ Top.pc = "one"
    /\ LET i  == firstEmpty(Top.actions)
           g1 == new_grid(Top.grid, i)
           a1 == new_actions(Top.actions, i)
       IN  IF ret = <<TRUE>>
           THEN /\ out' = Report(g1, a1)
                /\ Return(TRUE)
           ELSE /\ stack' = SetTopPc("tryzero")
                /\ UNCHANGED <<pc, ret, out>>
    /\ UNCHANGED <<puzzle, grid, actions, loaded, nValid>>

\* isValid(grid, new_actions) && solve(grid, new_actions); else return false
solve_TryZero ==
    /\ pc = "solve"
    /\ Top.pc = "tryzero"
    /\ LET i  == firstEmpty(Top.actions)
           a1 == new_actions(Top.actions, i)
       IN  IF isValid(Top.grid, a1)
           THEN /\ stack' = Append(SetTopPc("zero"), Frame(Top.grid, a1, "enter"))
                /\ UNCHANGED <<pc, ret>>
           ELSE Return(FALSE)
    /\ nValid' = nValid + 1
    /\ UNCHANGED <<puzzle, grid, actions, loaded, out>>

\* The call for the candidate 0 has returned.
solve_AfterZero ==
    /\ pc = "solve"
    /\ Top.pc = "zero"
    /\ LET i  == firstEmpty(Top.actions)
           a1 == new_actions(Top.actions, i)
       IN  IF ret = <<TRUE>>
           THEN /\ out' = Report(Top.grid, a1)
                /\ Return(TRUE)
           ELSE /\ out' = out
                /\ Return(FALSE)
    /\ UNCHANGED <<puzzle, grid, actions, loaded, nValid>>

Next ==
    \/ Load
    \/ solve_Call
    \/ solve_Base
    \/ solve_TryOne
    \/ solve_AfterOne
    \/ solve_TryZero
    \/ solve_AfterZero

Spec == Init /\ [][Next]_vars

(***************************************************************************)
(* The rules of the puzzle read off the grid, cell by cell                 *)
(***************************************************************************)

\* The cells solve may assign: the empty cells inside the grid.
Empties(acts) == acts \cap GridBits

\* Cell (r, c) is the cell at linear index r * N + c: 0, 1, or 2 for empty.
Cell(g, acts, r, c) ==
    IF (r * N + c) \in acts THEN 2 ELSE IF (r * N + c) \in g THEN 1 ELSE 0

RowCells(g, acts, r) == [c \in 0 .. (N - 1) |-> Cell(g, acts, r, c)]

ColCells(g, acts, c) == [r \in 0 .. (N - 1) |-> Cell(g, acts, r, c)]

Lines(g, acts) ==
    {RowCells(g, acts, r) : r \in 0 .. (N - 1)} \cup
    {ColCells(g, acts, c) : c \in 0 .. (N - 1)}

LineCount(l, v) == Cardinality({k \in 0 .. (N - 1) : l[k] = v})

LineHasTriple(l) ==
    \E k \in 0 .. (N - 3) : l[k] # 2 /\ l[k] = l[k + 1] /\ l[k + 1] = l[k + 2]

LineFull(l) == \A k \in 0 .. (N - 1) : l[k] # 2

RefValid(g, acts) ==
    /\ \A l \in Lines(g, acts) :
          /\ LineCount(l, 0) <= N \div 2
          /\ LineCount(l, 1) <= N \div 2
          /\ ~LineHasTriple(l)
    /\ \A r1, r2 \in 0 .. (N - 1) :
          (r1 < r2 /\ LineFull(RowCells(g, acts, r1)) /\ LineFull(RowCells(g, acts, r2)))
              => RowCells(g, acts, r1) # RowCells(g, acts, r2)
    /\ \A c1, c2 \in 0 .. (N - 1) :
          (c1 < c2 /\ LineFull(ColCells(g, acts, c1)) /\ LineFull(ColCells(g, acts, c2)))
              => ColCells(g, acts, c1) # ColCells(g, acts, c2)

\* A solved grid: every cell filled, every row and column with exactly
\* N/2 zeros and N/2 ones and without three equal neighbours, rows pairwise
\* distinct and columns pairwise distinct.
RefSolved(g, acts) ==
    /\ Empties(acts) = {}
    /\ \A l \in Lines(g, acts) :
          /\ LineCount(l, 0) = N \div 2
          /\ LineCount(l, 1) = N \div 2
          /\ ~LineHasTriple(l)
    /\ \A r1, r2 \in 0 .. (N - 1) :
          r1 < r2 => RowCells(g, acts, r1) # RowCells(g, acts, r2)
    /\ \A c1, c2 \in 0 .. (N - 1) :
          c1 < c2 => ColCells(g, acts, c1) # ColCells(g, acts, c2)

\* The fully filled grids that keep the filled cells of (g, acts).
Completions(g, acts) == {g \cup S : S \in SUBSET Empties(acts)}

\* The completions that satisfy isValid.
ValidCompletions(g, acts) ==
    {c \in Completions(g, acts) : isValid(c, acts \ GridBits)}

HasCompletion(g, acts) ==
    \E c \in Completions(g, acts) : isValid(c, acts \ GridBits)

\* c1 comes before c2 when the cells are compared in increasing linear
\* index with 0 before 1.
Before(c1, c2) ==
    /\ c1 # c2
    /\ \E d \in Xor(c1, c2) :
          /\ \A x \in Xor(c1, c2) : d <= x
          /\ d \in c2

Smallest(cs) == CHOOSE c \in cs : \A c2 \in cs : c2 = c \/ Before(c, c2)

Largest(cs) == CHOOSE c \in cs : \A c2 \in cs : c2 = c \/ Before(c2, c)

(***************************************************************************)
(* Claims about solve of src/unnamed/part_002 (Spec).  The input state of  *)
(* solve is (grid, actions) of main, which solve never changes.            *)
(***************************************************************************)

\* C1: called on a state for which isValid holds, solve returns true if and
\* only if some assignment of the empty cells gives a grid for which
\* isValid holds, and false otherwise.
C1_TrueIffCompletion ==
    (pc = "done" /\ isValid(grid, actions))
        => /\ ret \in {<<TRUE>>, <<FALSE>>}
           /\ (ret = <<TRUE>>) = HasCompletion(grid, actions)

C1_Witness ==
    /\ pc = "done"
    /\ isValid(grid, actions)
    /\ Cardinality(Empties(actions)) >= 4
    /\ nValid > Cardinality(Empties(actions))
    /\ ret = <<TRUE>>
    /\ HasCompletion(grid, actions)

\* The other case of C1: a valid state without completion, answered false.
C1_WitnessNone ==
    /\ pc = "done"
    /\ isValid(grid, actions)
    /\ ret = <<FALSE>>
    /\ ~HasCompletion(grid, actions)

\* C2: called on a state for which isValid holds, every grid solve reports
\* as solved is completely filled and obeys the three rules.
C2_ReportedIsSolved ==
    \A k \in 1 .. Len(out) :
        isValid(grid, actions) => RefSolved(out[k].grid, out[k].actions)

C2_Witness ==
    /\ pc = "done"
    /\ isValid(grid, actions)
    /\ Cardinality(Empties(actions)) >= 4
    /\ Len(out) >= 1
    /\ RefSolved(out[1].grid, out[1].actions)

\* C3 as stated: the solution reported for a solvable state is the valid
\* completion that comes first with 0 before 1.
C3_ReportsSmallest ==
    (pc = "done" /\ isValid(grid, actions) /\ HasCompletion(grid, actions))
        => /\ Len(out) >= 1
           /\ out[1].grid = Smallest(ValidCompletions(grid, actions))

\* C3 amended: solve tries 1 before 0 at the lowest-index empty cell, and
\* the solution reported for a solvable state is the valid completion that
\* comes last with 0 before 1 (first with 1 before 0).
C3_ReportsLargest ==
    (pc = "done" /\ isValid(grid, actions) /\ HasCompletion(grid, actions))
        => /\ Len(out) >= 1
           /\ \A k \in 1 .. Len(out) :
                 out[k].grid = Largest(ValidCompletions(grid, actions))

C3_Witness ==
    /\ pc = "done"
    /\ isValid(grid, actions)
    /\ Cardinality(ValidCompletions(grid, actions)) >= 2
    /\ Len(out) >= 1
    /\ out[1].grid = Largest(ValidCompletions(grid, actions))
    /\ out[1].grid # Smallest(ValidCompletions(grid, actions))

\* C4 as stated: a state for which isValid is false, also one without
\* empty cells, is never reported as solved and solve does not return true.
C4_InvalidNeverSolved ==
    (pc \in {"solve", "done"} /\ ~isValid(grid, actions))
        => /\ out = <<>>
           /\ ret # <<TRUE>>

(***************************************************************************)
(* src/takuzu.c: load of its cell array, and the solve that returns the    *)
(* grid (SpecT)                                                            *)
(***************************************************************************)

\* enum cell puzzle[N*N] of load in src/takuzu.c
FixedPuzzle ==
    << "EMPTY", "EMPTY", "EMPTY", "EMPTY", "WHITE", "EMPTY",
       "BLACK", "EMPTY", "EMPTY", "BLACK", "EMPTY", "EMPTY",
       "BLACK", "EMPTY", "BLACK", "BLACK", "EMPTY", "EMPTY",
       "EMPTY", "EMPTY", "EMPTY", "EMPTY", "EMPTY", "EMPTY",
       "EMPTY", "EMPTY", "EMPTY", "EMPTY", "EMPTY", "EMPTY",
       "WHITE", "WHITE", "EMPTY", "EMPTY", "WHITE", "EMPTY" >>

\* The words solve is called with by a caller of its own: a solved grid,
\* with at most its cell 0 inverted and a block of cells emptied, and an
\* actions word that marks the emptied cells, exactly as wide as the grid
\* or with the bits above the grid set as main's word has them.
SolveArgs ==
    {[state |-> Xor(b, f) \ e, actions |-> e \cup hi] :
        b \in {Solved1, Solved2}, f \in {{}, {0}}, e \in Blanks,
        hi \in {{}, AllBits \ GridBits}}

\* The loop over the cells: st holds the index i, state and actions.
RECURSIVE takuzu_loadLoop(_, _)
takuzu_loadLoop(cells, st) ==
    IF st.i >= NN THEN [state |-> st.state, actions |-> st.actions]
    ELSE IF cells[st.i + 1] = "EMPTY"
    THEN takuzu_loadLoop(cells, [i |-> st.i + 1, state |-> st.state,
                                 actions |-> st.actions])
    ELSE takuzu_loadLoop(cells,
             [i       |-> st.i + 1,
              state   |-> IF cells[st.i + 1] = "WHITE" THEN st.state \cup Bit(st.i)
                          ELSE st.state,
              actions |-> Xor(st.actions, Bit(st.i))])

\* void load(unsigned long long* state, unsigned long long* actions)
takuzu_load(cells, state, acts) ==
    takuzu_loadLoop(cells, [i |-> 0, state |-> state, actions |-> acts])

TFrame(st, acts, idx, at) == [state |-> st, actions |-> acts, i |-> idx, pc |-> at]

RECURSIVE scanFrom(_, _)
scanFrom(acts, i) ==
    IF i >= NN THEN NN
    ELSE IF 0 \in Shr(acts, i) THEN i
    ELSE scanFrom(acts, i + 1)

\* The value of a call that runs off the end of solve, which has no return
\* statement there, is undefined: any word of the type.
Undefined == SUBSET AllBits

\* unsigned long long solution = solve(grid, actions): the words main's
\* solution may hold once solve has returned.  ret is <<v>> after return v
\* and empty after a call that ended without a return statement.
solution == IF ret = NoRet THEN Undefined ELSE {ret[1]}

\* main's run on the puzzle of load, or a call of solve on words of the
\* caller's own.
InitT ==
    /\ puzzle = FixedPuzzle
    /\ \/ /\ pc = "load"
          /\ grid = {}
          /\ actions \in StartActions
       \/ /\ pc = "loaded"
          /\ \E a \in SolveArgs :
                /\ grid = a.state
                /\ actions = a.actions
    /\ loaded = NoLoad
    /\ stack = <<>>
    /\ ret = NoRet
    /\ out = <<>>
    /\ nValid = 0

\* main: load(&grid, &actions)
takuzu_Load ==
    /\ pc = "load"
    /\ LET r == takuzu_load(puzzle, grid, actions)
       IN  /\ grid' = r.state
           /\ actions' = r.actions
    /\ pc' = "loaded"
    /\ UNCHANGED <<puzzle, loaded, stack, ret, out, nValid>>

\* main: solution = solve(grid, actions)
takuzu_Call ==
    /\ pc = "loaded"
    /\ pc' = "solve"
    /\ stack' = <<TFrame(grid, actions, 0, "enter")>>
    /\ UNCHANGED <<puzzle, grid, actions, loaded, ret, out, nValid>>

\* if (!actions && isValid(state, actions)) { printf("Solved!\n"); return state; }
takuzu_Enter ==
    /\ pc = "solve"
    /\ Top.pc = "enter"
    /\ nValid' = IF Top.actions = {} THEN nValid + 1 ELSE nValid
    /\ IF Top.actions = {} /\ isValid(Top.state, Top.actions)
       THEN /\ out' = Append(out, [grid |-> Top.state, actions |-> Top.actions])
            /\ Return(Top.state)
       ELSE /\ stack' = SetTopPc("loop")
            /\ UNCHANGED <<pc, ret, out>>
    /\ UNCHANGED <<puzzle, grid, actions, loaded>>

\* One pass of the loop body at the next empty cell i: the copy with a 1
\* at i is made; if it is valid solve is called on it, else the cell is
\* struck from actions and the loop goes on.
takuzu_Iter ==
    /\ pc = "solve"
    /\ Top.pc = "loop"
    /\ scanFrom(Top.actions, Top.i) < NN
    /\ LET j            == scanFrom(Top.actions, Top.i)
           state_copy   == Top.state \cup Bit(j)
           actions_copy == Xor(Top.actions, Bit(j))
       IN  stack' = IF isValid(state_copy, actions_copy)
                    THEN Append([stack EXCEPT ![Len(stack)].pc = "after",
                                              ![Len(stack)].i = j],
                                TFrame(state_copy, actions_copy, 0, "enter"))
                    ELSE [stack EXCEPT ![Len(stack)].actions = Xor(Top.actions, Bit(j)),
                                       ![Len(stack)].i = j + 1]
    /\ nValid' = nValid + 1
    /\ UNCHANGED <<pc, puzzle, grid, actions, loaded, ret, out>>

\* The recursive call has returned (its value is dropped):
\* actions ^= (1ULL << i), and on to the next cell.
takuzu_After ==
    /\ pc = "solve"
    /\ Top.pc = "after"
    /\ stack' = [stack EXCEPT ![Len(stack)].actions = Xor(Top.actions, Bit(Top.i)),
                              ![Len(stack)].i = Top.i + 1,
                              ![Len(stack)].pc = "loop"]
    /\ ret' = NoRet
    /\ UNCHANGED <<pc, puzzle, grid, actions, loaded, out, nValid>>

\* The loop has ended: control reaches the closing brace without a return
\* statement.  The call ends and hands no value over; what its caller reads
\* as its value is Undefined.
takuzu_FallOff ==
    /\ pc = "solve"
    /\ Top.pc = "loop"
    /\ scanFrom(Top.actions, Top.i) = NN
    /\ stack' = SubSeq(stack, 1, Len(stack) - 1)
    /\ ret' = NoRet
    /\ pc' = IF Len(stack) = 1 THEN "done" ELSE pc
    /\ UNCHANGED <<puzzle, grid, actions, loaded, out, nValid>>

NextT ==
    \/ takuzu_Load
    \/ takuzu_Call
    \/ takuzu_Enter
    \/ takuzu_Iter
    \/ takuzu_After
    \/ takuzu_FallOff

SpecT == InitT /\ [][NextT]_vars

\* C5 as stated: once a call of solve (src/takuzu.c) has reached the solved
\* state, every step is a return to the caller, without further isValid
\* calls or calls of solve, and the outermost call ends with a return of
\* the solved grid.
C5_SolvedPropagates ==
    [][out # <<>> => /\ Len(stack') < Len(stack)
                     /\ nValid' = nValid
                     /\ (pc' = "done" => ret' = <<out[1].grid>>)]_vars

\* C6 as stated: on a word exactly as wide as the grid, solve
\* (src/takuzu.c) reaches its solved branch for every state that is valid
\* and has a valid completion.
C6_SolvableIsSolved ==
    (/\ pc = "done"
     /\ actions \subseteq GridBits
     /\ isValid(grid, actions)
     /\ HasCompletion(grid, actions))
        => out # <<>>

(***************************************************************************)
(* SpecValid: isValid called once on a state of the grid.  The states are  *)
(* full grids with at most one cell inverted and a block of cells emptied; *)
(* the bits stored under the empty cells are 0, or 1, or left as they were.*)
(***************************************************************************)

\* Grids whose only fault is that rows 0 and 2, and rows 1 and 3, are equal
\* (as are columns 1 and 4, and 2 and 5), and the same grid transposed.
Doubled == {0, 2, 5, 7, 9, 10, 12, 14, 17, 19, 21, 22, 24, 25, 28, 32, 33, 35}

DoubledT == {0, 2, 4, 7, 9, 10, 12, 14, 17, 19, 21, 23, 25, 27, 28, 30, 32, 35}

\* Solved1 with the cells 2, 3 of row 0 exchanged with the cells 2, 3 of
\* row 5 (rows 111000 and 000111), and with the cells 0, 5 of row 1
\* exchanged with those of row 4 (columns 0 and 5 get three equal
\* neighbours): every row and column keeps three zeros and three ones, and
\* rows and columns stay pairwise distinct.
Tripled == {0, 1, 2, 7, 10, 11, 12, 14, 15, 20, 21, 23, 24, 25, 28, 33, 34, 35}

TripledT == {0, 1, 3, 6, 7, 10, 12, 14, 15, 20, 21, 23, 25, 28, 29, 32, 34, 35}

ValidBases == {Solved1, Doubled, DoubledT, Tripled, TripledT}

AnyFlips == {{}} \cup {{f} : f \in GridBits}

\* The bits stored under the empty cells e of the grid g.
Stored(g, e) == {g \ e, g \cup e, g}

InitValid ==
    /\ pc = "valid"
    /\ puzzle = <<>>
    /\ \E b \in ValidBases, f \in AnyFlips, e \in Blanks :
          /\ grid \in Stored(Xor(b, f), e)
          /\ actions = e
    /\ loaded = NoLoad
    /\ stack = <<>>
    /\ ret = NoRet
    /\ out = <<>>
    /\ nValid = 0

CheckValid ==
    /\ pc = "valid"
    /\ ret' = <<isValid(grid, actions)>>
    /\ nValid' = nValid + 1
    /\ pc' = "done"
    /\ UNCHANGED <<puzzle, grid, actions, loaded, stack, out>>

NextValid == CheckValid

SpecValid == InitValid /\ [][NextValid]_vars

\* C10: isValid is true exactly when, on the grid read cell by cell, no row
\* or column has more than N/2 filled zeros or ones or three equal filled
\* neighbours, and no two full rows and no two full columns are equal; the
\* bits stored under empty cells play no part.
C10_ValidIffRules ==
    pc = "done" => ret = <<RefValid(grid, actions)>>

\* Two rows with empty cells store the same bits, a 1 is stored under an
\* empty cell, and the state is valid.
C10_Witness ==
    /\ pc = "done"
    /\ ret = <<TRUE>>
    /\ grid \cap actions # {}
    /\ \E r1, r2 \in 0 .. (N - 1) :
          /\ r1 < r2
          /\ getRow(actions, r1) # 0
          /\ getRow(actions, r2) # 0
          /\ getRow(grid, r1) = getRow(grid, r2)

\* The faults one at a time: states that are invalid only because two full
\* rows are equal, and only because two full columns are equal.
OnlyRowsEqual ==
    /\ pc = "done"
    /\ ret = <<FALSE>>
    /\ \A l \in Lines(grid, actions) :
          LineCount(l, 0) <= N \div 2 /\ LineCount(l, 1) <= N \div 2 /\ ~LineHasTriple(l)
    /\ \A c1, c2 \in 0 .. (N - 1) :
          (c1 < c2 /\ LineFull(ColCells(grid, actions, c1)))
              => ColCells(grid, actions, c1) # ColCells(grid, actions, c2)

OnlyColsEqual ==
    /\ pc = "done"
    /\ ret = <<FALSE>>
    /\ \A l \in Lines(grid, actions) :
          LineCount(l, 0) <= N \div 2 /\ LineCount(l, 1) <= N \div 2 /\ ~LineHasTriple(l)
    /\ \A r1, r2 \in 0 .. (N - 1) :
          (r1 < r2 /\ LineFull(RowCells(grid, actions, r1)))
              => RowCells(grid, actions, r1) # RowCells(grid, actions, r2)

\* States that are invalid only because of three equal filled neighbours:
\* in one row and no column, and in one column and no row.  No line has
\* more than N/2 zeros or ones and no two full lines are equal.
NoOtherFault ==
    /\ \A l \in Lines(grid, actions) :
          LineCount(l, 0) <= N \div 2 /\ LineCount(l, 1) <= N \div 2
    /\ \A r1, r2 \in 0 .. (N - 1) :
          (r1 < r2 /\ LineFull(RowCells(grid, actions, r1)))
              => RowCells(grid, actions, r1) # RowCells(grid, actions, r2)
    /\ \A c1, c2 \in 0 .. (N - 1) :
          (c1 < c2 /\ LineFull(ColCells(grid, actions, c1)))
              => ColCells(grid, actions, c1) # ColCells(grid, actions, c2)

C10_WitnessTriple ==
    /\ pc = "done"
    /\ ret = <<FALSE>>
    /\ NoOtherFault
    /\ Cardinality({r \in 0 .. (N - 1) : LineHasTriple(RowCells(grid, actions, r))}) = 1
    /\ \A c \in 0 .. (N - 1) : ~LineHasTriple(ColCells(grid, actions, c))
    /\ actions # {}

OnlyColTriple ==
    /\ pc = "done"
    /\ ret = <<FALSE>>
    /\ NoOtherFault
    /\ Cardinality({c \in 0 .. (N - 1) : LineHasTriple(ColCells(grid, actions, c))}) = 1
    /\ \A r \in 0 .. (N - 1) : ~LineHasTriple(RowCells(grid, actions, r))

(***************************************************************************)
(* SpecTriplets: hasTriplets called once on a row or column.  grid and     *)
(* actions hold the N bits of the row or column and of its empty cells, as *)
(* getRow and getCol hand them over.                                       *)
(***************************************************************************)

InitTriplets ==
    /\ pc = "triplets"
    /\ puzzle = <<>>
    /\ grid \in SUBSET (0 .. (N - 1))
    /\ actions \in SUBSET (0 .. (N - 1))
    /\ loaded = NoLoad
    /\ stack = <<>>
    /\ ret = NoRet
    /\ out = <<>>
    /\ nValid = 0

CheckTriplets ==
    /\ pc = "triplets"
    /\ ret' = <<hasTriplets(ToUChar(grid), ToUChar(actions))>>
    /\ pc' = "done"
    /\ UNCHANGED <<puzzle, grid, actions, loaded, stack, out, nValid>>

NextTriplets == CheckTriplets

SpecTriplets == InitTriplets /\ [][NextTriplets]_vars

\* The positions k, k+1, k+2 are all filled and hold the same value.
EqualFilledWindow(val, mask, k) ==
    /\ {k, k + 1, k + 2} \cap mask = {}
    /\ \/ {k, k + 1, k + 2} \subseteq val
       \/ {k, k + 1, k + 2} \cap val = {}

\* C11: hasTriplets is true exactly when some window k, k+1, k+2 with
\* 0 <= k <= N-3 has its three cells filled and equal; a window with an
\* empty cell is skipped.
C11_TripletsIffWindow ==
    pc = "done"
        => ret = <<\E k \in 0 .. (N - 3) : EqualFilledWindow(grid, actions, k)>>

\* The only filled window of equal cells is the last one, holding zeros.
C11_Witness ==
    /\ pc = "done"
    /\ ret = <<TRUE>>
    /\ EqualFilledWindow(grid, actions, N - 3)
    /\ (N - 3) \notin grid
    /\ \A k \in 0 .. (N - 4) : ~EqualFilledWindow(grid, actions, k)

\* The skipped window: three equal stored bits, one of them under an empty
\* cell, and no triplet found.
C11_WitnessSkipped ==
    /\ pc = "done"
    /\ ret = <<FALSE>>
    /\ \E k \in 0 .. (N - 3) :
          /\ {k, k + 1, k + 2} \subseteq grid
          /\ {k, k + 1, k + 2} \cap actions # {}

(***************************************************************************)
(* SpecSolve: both solvers, each on its own inputs: solve of               *)
(* src/unnamed/part_002 on the strings read by load, solve of src/takuzu.c *)
(* in main's run and in the calls on SolveArgs.                            *)
(***************************************************************************)

\* The input is a string for load of src/unnamed/part_002.
IsText == puzzle[1] \in Alphabet

InitSolve == Init \/ InitT

NextSolve ==
    \/ IsText /\ Next
    \/ ~IsText /\ NextT

SpecSolve == InitSolve /\ [][NextSolve]_vars

\* main has nothing left to run: solve has returned, or load has failed.
Finished ==
    \/ pc = "done"
    \/ pc = "loaded" /\ IsText /\ ~loaded.ret

\* main is at a statement it can execute: the call of load, the call of
\* solve (after a load that returned true, in src/unnamed/part_002), or a
\* statement of the innermost active call of solve.
Running ==
    \/ pc = "load"
    \/ pc = "loaded" /\ (IsText => loaded.ret)
    \/ /\ pc = "solve"
       /\ Len(stack) >= 1
       /\ Top.pc \in (IF IsText THEN {"enter", "one", "tryzero", "zero"}
                      ELSE {"enter", "loop", "after"})

\* What is left of main: load, the call of solve, solve, the end.
Phase == CASE pc = "load" -> 3 [] pc = "loaded" -> 2 [] pc = "solve" -> 1 [] OTHER -> 0

\* What is left of one call of solve.  In src/unnamed/part_002: the entry,
\* the candidate 1, the candidate 0.  In src/takuzu.c: the entry and the
\* passes of the loop from cell i on.
Remaining(f) ==
    IF "grid" \in DOMAIN f
    THEN CASE f.pc = "enter" -> 3 [] f.pc = "one" -> 2 [] f.pc = "tryzero" -> 1 [] OTHER -> 0
    ELSE CASE f.pc = "enter" -> 3 * NN + 3
           [] f.pc = "loop"  -> 3 * (NN - f.i) + 2
           [] OTHER          -> 3 * (NN - f.i) + 1

Work(stk) == [k \in 1 .. Len(stk) |-> Remaining(stk[k])]

\* Dictionary order on sequences of naturals: s comes before t.
Earlier(s, t) ==
    \E k \in 1 .. Len(t) :
        /\ Len(s) >= k - 1
        /\ \A j \in 1 .. (k - 1) : s[j] = t[j]
        /\ \/ Len(s) = k - 1
           \/ s[k] < t[k]

\* A step of solve calls solve.
Calls == Len(stack) >= 1 /\ Len(stack') = Len(stack) + 1

\* C12: solve terminates on every input state.  Every step leaves strictly
\* less to do (in the dictionary order on the work left in the active calls,
\* whose number is bounded), short of the end main always has a statement
\* to execute, every recursive call receives a state with exactly one fewer
\* empty grid cell than its caller, at most as many calls are nested as the
\* input has empty cells (at most N*N), and solve of src/unnamed/part_002
\* ends with true or false.
C12_SolveTerminates ==
    /\ [](Finished \/ Running)
    /\ [](Len(stack) <= Cardinality(Empties(actions)) + 1)
    /\ []((pc = "done" /\ IsText) => ret \in {<<TRUE>>, <<FALSE>>})
    /\ [][/\ \/ Phase' < Phase
             \/ Phase' = Phase /\ Earlier(Work(stack'), Work(stack))
          /\ Calls => Cardinality(Empties(stack'[Len(stack')].actions))
                          = Cardinality(Empties(Top.actions)) - 1]_vars

\* solve of src/unnamed/part_002 is nested as deep as the input has empty
\* cells, four or more.
C12_Witness ==
    /\ pc = "solve"
    /\ IsText
    /\ Cardinality(Empties(actions)) >= 4
    /\ Len(stack) = Cardinality(Empties(actions)) + 1

\* solve of src/takuzu.c has returned from its search on the fixed puzzle.
C12_WitnessT ==
    /\ pc = "done"
    /\ puzzle = FixedPuzzle
    /\ nValid >= 100

\* Both solvers have ended, one of them with false after a search.
C12_WitnessEnd ==
    /\ pc = "done"
    /\ IsText => ret = <<FALSE>> /\ nValid >= 4

(***************************************************************************)
(* The cells solve of src/unnamed/part_002 touches.  grid and actions are  *)
(* main's words as load left them: the input state of solve.               *)
(***************************************************************************)

\* The state (g, acts) is the input state with some of its empty cells
\* assigned: no cell has become empty, and g differs from the input grid
\* only in cells that were empty in the input and are filled in acts.
KeepsInput(g, acts) ==
    /\ acts \subseteq actions
    /\ \A c \in GridBits : c \notin (actions \ acts) => ((c \in g) <=> (c \in grid))

\* The state of the call in frame k + 1 is that of its caller in frame k
\* with the caller's first empty cell filled: by 1 when the caller is at its
\* candidate 1, by what the caller's own grid holds there when it is at its
\* candidate 0.
PassedDown(k) ==
    LET i == firstEmpty(stack[k].actions)
    IN  /\ stack[k].pc \in {"one", "zero"}
        /\ stack[k + 1].actions = stack[k].actions \ {i}
        /\ stack[k + 1].grid = IF stack[k].pc = "one" THEN stack[k].grid \cup {i}
                               ELSE stack[k].grid

\* C13: in every state visited by solve (src/unnamed/part_002) and in every
\* grid it reports, the cells filled in the input keep their value and stay
\* filled; only cells empty in the input are assigned, and the state passed
\* to the candidate 0 carries nothing of what the candidate 1 assigned.
C13_InputCellsKept ==
    pc \in {"solve", "done"} =>
        /\ \A k \in 1 .. Len(stack) : KeepsInput(stack[k].grid, stack[k].actions)
        /\ \A k \in 1 .. Len(out) : KeepsInput(out[k].grid, out[k].actions)
        /\ \A k \in 1 .. (Len(stack) - 1) : PassedDown(k)

\* A grid is reported after the search went into a candidate 0 at the
\* outermost call and assigned both values below it, on an input with
\* filled cells holding 1 and four or more empty cells.
C13_Witness ==
    /\ pc = "done"
    /\ out # <<>>
    /\ Cardinality(Empties(actions)) >= 4
    /\ grid # {}
    /\ LET i == firstEmpty(actions)
           assigned == out[1].grid \ grid
       IN  /\ i \notin out[1].grid
           /\ assigned # {}
           /\ assigned # Empties(actions)

\* The search is two calls deep below a candidate 0.
C13_WitnessSibling ==
    /\ pc = "solve"
    /\ Len(stack) >= 3
    /\ stack[1].pc = "zero"
    /\ stack[2].pc = "one"

(***************************************************************************)
(* The width of the actions word: main starts it at all 64 bits, load      *)
(* strikes the bits of the filled cells, solve tests the word against 0.   *)
(***************************************************************************)

\* C14 as stated: after the load of a word started at all 64 bits no bit
\* at a position N*N or above is set, and in every call of solve the
\* actions word is 0 exactly when all N*N cells are filled.
C14_ActionsOnlyEmptyCells ==
    [][/\ (pc = "load" /\ actions = AllBits) => actions' \subseteq GridBits
       /\ \A k \in 1 .. Len(stack') :
             (stack'[k].actions = {}) <=> (Empties(stack'[k].actions) = {})]_vars

====
